---- MODULE Spec2Model ----
(***************************************************************************)
(* Model of worker.py: the Ollama worker command line client.              *)
(*                                                                         *)
(* One process invocation runs one command (models, delegate, stats).     *)
(* The only state that survives an invocation is the JSON-lines log file.  *)
(*                                                                         *)
(* Conventions                                                             *)
(*   - a Python str is a sequence of characters; a fixed literal of the    *)
(*     source is one element of such a sequence (its text kept verbatim    *)
(*     or abbreviated), a caller-supplied character is a one-letter        *)
(*     element;                                                            *)
(*   - an optional value (Python None or a value) is a record              *)
(*     [set |-> BOOLEAN, val |-> value];                                   *)
(*   - an optional key of a Python dict is modelled the same way.          *)
(***************************************************************************)
EXTENDS Integers, Sequences, FiniteSets, TLC

VARIABLES
    log,         \* lines of LOG_FILE, in file order (each line: a sequence of <<key, value>>)
    logExists,   \* TRUE when LOG_FILE exists on disk
    cmd,         \* the command of the last invocation ("none" before the first)
    args,        \* the arguments of the last delegate invocation
    env,         \* what the last delegate invocation found: files, response, clock
    request,     \* the payload built by the last delegate invocation
    events,      \* what the last invocation did, in order: output, network, log append
    status,      \* how the last invocation ended: "none", "built", "exit0", "exit1"
    report,      \* what the last stats invocation computed
    delegations  \* history: one entry per delegate invocation that exited 0

vars == <<log, logExists, cmd, args, env, request, events, status, report, delegations>>

(***************************************************************************)
(* Bounds of the model.                                                    *)
(***************************************************************************)
MaxLog == 2        \* delegate invocations are explored while the log has fewer lines
MaxAgents == 2     \* --agents ranges over -MaxAgents..MaxAgents

(***************************************************************************)
(* Python values.                                                          *)
(***************************************************************************)
None == [set |-> FALSE, val |-> <<>>]
NoneInt == [set |-> FALSE, val |-> 0]
NoneBool == [set |-> FALSE, val |-> FALSE]
Some(v) == [set |-> TRUE, val |-> v]

\* truth value of an optional str: None and "" are false
TruthyStr(o) == o.set /\ Len(o.val) > 0
\* truth value of an optional int: None and 0 are false
TruthyInt(o) == o.set /\ o.val # 0

IsPrefix(s, t) == Len(s) <= Len(t) /\ SubSeq(t, 1, Len(s)) = s
IsSuffix(s, t) == Len(s) <= Len(t) /\ SubSeq(t, Len(t) - Len(s) + 1, Len(t)) = s

\* str(n) for a non-negative n: its decimal digits
Digit(d) == CASE d = 0 -> "0" [] d = 1 -> "1" [] d = 2 -> "2" [] d = 3 -> "3"
              [] d = 4 -> "4" [] d = 5 -> "5" [] d = 6 -> "6" [] d = 7 -> "7"
              [] d = 8 -> "8" [] OTHER -> "9"

RECURSIVE NatToStr(_)
NatToStr(n) == IF n < 10 THEN <<Digit(n)>> ELSE NatToStr(n \div 10) \o <<Digit(n % 10)>>

\* f"{agents}" for an int
IntToStr(n) == IF n < 0 THEN <<"-">> \o NatToStr(0 - n) ELSE NatToStr(n)

(***************************************************************************)
(* Module constants.                                                       *)
(***************************************************************************)
DEFAULT_MODEL == <<"kimi-k2.5:cloud">>
SWARM_SYSTEM_PROMPT == <<"You are an AI with Agent Swarm capabilities. [...] beyond just combining outputs.">>

SpawnOpen == "\n\nSpawn exactly "
SpawnClose == " specialized agents for this task."
AdditionalContext == "\n\nAdditional context: "
Separator == "\n\n---\n\n"

(***************************************************************************)
(* delegate: the request builder.                                          *)
(***************************************************************************)
\* AgentSentence with the sign of the count dropped
AgentSentenceUnsigned(n) ==
    <<SpawnOpen>> \o NatToStr(IF n < 0 THEN 0 - n ELSE n) \o <<SpawnClose>>

\* the sentence appended for --agents
AgentSentence(n) == <<SpawnOpen>> \o IntToStr(n) \o <<SpawnClose>>

\* the context appended for --system in swarm mode
ContextSuffix(system) == <<AdditionalContext>> \o system

\* swarm_prompt
SwarmPrompt(agents, system) ==
    LET p0 == SWARM_SYSTEM_PROMPT
        p1 == IF TruthyInt(agents) THEN p0 \o AgentSentence(agents.val) ELSE p0
        p2 == IF TruthyStr(system) THEN p1 \o ContextSuffix(system.val) ELSE p1
    IN  p2

\* SystemMessages with the caller's system prompt tested first
SystemMessagesPromptFirst(swarm, agents, system) ==
    IF TruthyStr(system) THEN <<[role |-> "system", content |-> system.val, images |-> None]>>
    ELSE IF swarm THEN <<[role |-> "system", content |-> SwarmPrompt(agents, system), images |-> None]>>
    ELSE <<>>

\* the system messages put in front of the user message
SystemMessages(swarm, agents, system) ==
    IF swarm THEN <<[role |-> "system", content |-> SwarmPrompt(agents, system), images |-> None]>>
    ELSE IF TruthyStr(system) THEN <<[role |-> "system", content |-> system.val, images |-> None]>>
    ELSE <<>>

\* UserContent without the separator
UserContentNoSeparator(task, input_text) ==
    IF TruthyStr(input_text) THEN task \o input_text.val ELSE task

\* user_content
UserContent(task, input_text) ==
    IF TruthyStr(input_text) THEN task \o <<Separator>> \o input_text.val ELSE task

\* encode_image: base64 text of the file's bytes
EncodeImage(bytes) == <<"base64">> \o bytes

\* one thing an invocation does that the outside can see
Event(ch, item, text) == [ch |-> ch, item |-> item, text |-> text]
Stdout(item, text) == Event("stdout", item, text)
Stderr(item, text) == Event("stderr", item, text)

\* the user message, with the image when the path resolves
UserMessage(a, e) ==
    [role |-> "user",
     content |-> UserContent(a.task, a.input_text),
     images |-> IF TruthyStr(a.image) /\ e.imageExists
                THEN Some(<<EncodeImage(e.imageBytes)>>)
                ELSE None]

\* print(f"Warning: Image file not found: {image}", file=sys.stderr)
ImageWarning(a, e) ==
    IF TruthyStr(a.image) /\ ~e.imageExists
    THEN <<Stderr("warning_image_not_found", a.image.val)>>
    ELSE <<>>


\* tools_file and os.path.exists(tools_file)
ToolsResolved(a, e) == TruthyStr(a.tools_file) /\ e.tools.state # "missing"

\* ToolsLoadRaises with the file's text attached unparsed
ToolsNeverRaise(a, e) == FALSE

\* json.load(f) raises on a file that is not JSON
ToolsLoadRaises(a, e) == ToolsResolved(a, e) /\ e.tools.state = "not_json"

NoPayload ==
    [model |-> <<>>, messages |-> <<>>, stream |-> FALSE, think |-> NoneBool,
     tools |-> None, format |-> None]

\* payload, as it stands when the try block is entered
Payload(a, e) ==
    [model |-> a.model,
     messages |-> SystemMessages(a.swarm, a.agents, a.system) \o <<UserMessage(a, e)>>,
     stream |-> FALSE,
     think |-> IF a.think \/ a.swarm THEN Some(TRUE) ELSE NoneBool,
     tools |-> IF ToolsResolved(a, e) THEN Some(<<e.tools.value>>) ELSE None,
     format |-> IF a.json_output THEN Some(<<"json">>) ELSE None]

\* lines 99-147: the request is built, or json.load raises and nothing catches it
Build(a, e) ==
    IF ToolsLoadRaises(a, e)
    THEN [ok |-> FALSE, payload |-> NoPayload,
          events |-> ImageWarning(a, e) \o <<Stderr("traceback", <<"JSONDecodeError">>)>>]
    ELSE [ok |-> TRUE, payload |-> Payload(a, e), events |-> ImageWarning(a, e)]

(***************************************************************************)
(* delegate: the call, the log record, the output.                         *)
(***************************************************************************)
SWARM_TIMEOUT == 600
DEFAULT_TIMEOUT == 300
TASK_PREVIEW_LEN == 100

Min(x, y) == IF x < y THEN x ELSE y

\* timeout=600 if swarm else 300
Timeout(a) == IF a.swarm THEN SWARM_TIMEOUT ELSE DEFAULT_TIMEOUT

NoRequest == [posted |-> FALSE, payload |-> NoPayload, timeout |-> 0]

\* dict.get(key, default) on a decoded JSON object whose key may be absent
GetOr(o, default) == IF o.set THEN o.val ELSE default

\* Raises without resp.raise_for_status(): a non-success status goes unnoticed
RaisesNoStatusCheck(resp) == resp.kind \notin {"ok", "http_error"}

\* requests.post raises (ConnectionError, Timeout), raise_for_status raises on a
\* non-success status, resp.json() raises on an undecodable body, and reading a
\* body that is JSON of another shape raises in lines 160-174
Raises(resp) == resp.kind # "ok"

\* round(elapsed, 2), in hundredths of a second; elapsed is measured in milliseconds
Round2(ms) == (ms + 5) \div 10

\* f"{x:.1f}": x rounded to tenths, from milliseconds
Round1(ms) == (ms + 50) \div 100

\* the text of a number of tenths
OneDecimal(tenths) == NatToStr(tenths \div 10) \o <<".">> \o NatToStr(tenths % 10)

\* LogEntry with has_image set when the image was attached to the request
LogEntryImageAttached(a, e) ==
    LET message == e.resp
        response_text == GetOr(message.content, <<>>)
        thinking_text == GetOr(message.thinking, <<>>)
        tool_calls == GetOr(message.tool_calls, <<>>)
    IN  << <<"timestamp", e.now>>,
           <<"model", a.model>>,
           <<"task_preview", SubSeq(a.task, 1, Min(TASK_PREVIEW_LEN, Len(a.task)))>>,
           <<"input_chars", IF TruthyStr(a.input_text) THEN Len(a.input_text.val) ELSE 0>>,
           <<"output_chars", Len(response_text)>>,
           <<"thinking", Len(thinking_text) > 0>>,
           <<"swarm", a.swarm>>,
           <<"tool_calls", Len(tool_calls)>>,
           <<"has_image", TruthyStr(a.image) /\ e.imageExists>>,
           <<"prompt_eval_count", GetOr(e.resp.prompt_eval_count, 0)>>,
           <<"eval_count", GetOr(e.resp.eval_count, 0)>>,
           <<"elapsed_seconds", Round2(e.elapsedMs)>> >>

\* log_entry, as the ordered (key, value) pairs of the dict
LogEntry(a, e) ==
    LET message == e.resp
        response_text == GetOr(message.content, <<>>)
        thinking_text == GetOr(message.thinking, <<>>)
        tool_calls == GetOr(message.tool_calls, <<>>)
    IN  << <<"timestamp", e.now>>,
           <<"model", a.model>>,
           <<"task_preview", SubSeq(a.task, 1, Min(TASK_PREVIEW_LEN, Len(a.task)))>>,
           <<"input_chars", IF TruthyStr(a.input_text) THEN Len(a.input_text.val) ELSE 0>>,
           <<"output_chars", Len(response_text)>>,
           <<"thinking", Len(thinking_text) > 0>>,
           <<"swarm", a.swarm>>,
           <<"tool_calls", Len(tool_calls)>>,
           <<"has_image", TruthyStr(a.image)>>,
           <<"prompt_eval_count", GetOr(e.resp.prompt_eval_count, 0)>>,
           <<"eval_count", GetOr(e.resp.eval_count, 0)>>,
           <<"elapsed_seconds", Round2(e.elapsedMs)>> >>

\* json.dumps(log_entry) + "\n": one line holding the pairs in order
JsonDumps(entry) == entry

\* AppendLog with the file opened in mode "w"
OverwriteLog(file, line) == <<line>>

\* with open(LOG_FILE, "a") as f: f.write(line)
AppendLog(file, line) == Append(file, line)

\* lines 186-189
ThinkingOutput(e) ==
    LET thinking_text == GetOr(e.resp.thinking, <<>>)
    IN  IF Len(thinking_text) > 0
        THEN <<Stderr("thinking_header", <<>>), Stderr("thinking_text", thinking_text),
               Stderr("thinking_footer", <<>>)>>
        ELSE <<>>

\* lines 192-195
ToolCallsOutput(e) ==
    LET tool_calls == GetOr(e.resp.tool_calls, <<>>)
    IN  IF Len(tool_calls) > 0
        THEN <<Stderr("tool_calls_header", <<>>), Stderr("tool_calls_json", tool_calls),
               Stderr("tool_calls_footer", <<>>)>>
        ELSE <<>>

\* result.get(key, '?') in the footer
CountText(o) == IF o.set THEN NatToStr(o.val) ELSE <<"?">>

\* lines 201-210
StatsFooter(a, e) ==
    <<Stderr("stats_header", <<>>),
      Stderr("stats_model", a.model),
      Stderr("stats_tokens", CountText(e.resp.prompt_eval_count) \o <<" in, ">>
                             \o CountText(e.resp.eval_count) \o <<" out">>),
      Stderr("stats_time", OneDecimal(Round1(e.elapsedMs)) \o <<"s">>)>>
    \o (IF a.swarm THEN <<Stderr("mode_swarm", <<>>)>>
        ELSE IF a.think THEN <<Stderr("mode_thinking", <<>>)>>
        ELSE <<>>)
    \o (IF TruthyStr(a.image) THEN <<Stderr("vision", a.image.val)>> ELSE <<>>)

\* lines 186-210: everything printed after the log write
SuccessOutput(a, e) ==
    ThinkingOutput(e)
    \o ToolCallsOutput(e)
    \o <<Stdout("response", GetOr(e.resp.content, <<>>))>>
    \o StatsFooter(a, e)

\* HandleException without sys.exit(1)
HandleExceptionNoExit(kind) ==
    [events |-> <<Stderr(CASE kind = "connection_error" -> "error_cannot_connect"
                           [] kind = "timeout" -> "error_timed_out"
                           [] OTHER -> "error_other",
                         <<kind>>)>>,
     exit |-> 0]

\* the except clauses: a message on stderr, then sys.exit(1)
HandleException(kind) ==
    [events |-> <<Stderr(CASE kind = "connection_error" -> "error_cannot_connect"
                           [] kind = "timeout" -> "error_timed_out"
                           [] OTHER -> "error_other",
                         <<kind>>)>>,
     exit |-> 1]

\* AfterResponse with the log written after the output
AfterResponseLogLast(a, e) ==
    IF e.logWritable
    THEN [events |-> SuccessOutput(a, e) \o <<Event("log", "append", <<>>)>>,
          appended |-> <<JsonDumps(LogEntry(a, e))>>,
          exit |-> 0]
    ELSE LET h == HandleException("os_error")
         IN  [events |-> SuccessOutput(a, e) \o h.events, appended |-> <<>>, exit |-> h.exit]

\* lines 160-210, once the body is decoded: the log write, then the output;
\* a log directory or file that cannot be written raises inside the try block
AfterResponse(a, e) ==
    IF e.logWritable
    THEN [events |-> <<Event("log", "append", <<>>)>> \o SuccessOutput(a, e),
          appended |-> <<JsonDumps(LogEntry(a, e))>>,
          exit |-> 0]
    ELSE LET h == HandleException("os_error")
         IN  [events |-> h.events, appended |-> <<>>, exit |-> h.exit]

\* lines 149-220
Execute(a, e) ==
    LET post == <<Event("net", "post", <<>>)>>
    IN  IF Raises(e.resp)
        THEN LET h == HandleException(e.resp.kind)
             IN  [events |-> post \o h.events, appended |-> <<>>, exit |-> h.exit]
        ELSE LET r == AfterResponse(a, e)
             IN  [events |-> post \o r.events, appended |-> r.appended, exit |-> r.exit]

\* the whole of delegate(): an uncaught exception while building ends the process with
\* a traceback and status 1
Run(a, e) ==
    LET b == Build(a, e)
    IN  IF ~b.ok
        THEN [events |-> b.events, appended |-> <<>>, exit |-> 1, request |-> NoRequest]
        ELSE LET x == Execute(a, e)
             IN  [events |-> b.events \o x.events, appended |-> x.appended, exit |-> x.exit,
                  request |-> [posted |-> TRUE, payload |-> b.payload, timeout |-> Timeout(a)]]

(***************************************************************************)
(* show_stats: the aggregator.                                             *)
(***************************************************************************)
\* json.loads(line): the dict of the line's pairs (a repeated key keeps its last value)
JsonLoads(line) ==
    [k \in {line[i][1] : i \in DOMAIN line} |->
        line[CHOOSE i \in DOMAIN line :
                /\ line[i][1] = k
                /\ \A j \in DOMAIN line : line[j][1] = k => j <= i][2]]

\* e.get(key, default)
Get(obj, key, default) == IF key \in DOMAIN obj THEN obj[key] ELSE default

\* line.strip() is true of a line that is not blank
NotBlank(line) == Len(line) > 0

RECURSIVE ReadEntries(_)
\* lines 229-233: the entries of the non-blank lines, in file order
ReadEntries(file) ==
    IF file = <<>> THEN <<>>
    ELSE IF NotBlank(Head(file)) THEN <<JsonLoads(Head(file))>> \o ReadEntries(Tail(file))
    ELSE ReadEntries(Tail(file))

NewSummary == [count |-> 0, tokens_in |-> 0, tokens_out |-> 0, time |-> 0]

\* AddToSummary with both token totals fed from the same key
AddToSummarySameKey(sm, e) ==
    [count |-> sm.count + 1,
     tokens_in |-> sm.tokens_in + Get(e, "eval_count", 0),
     tokens_out |-> sm.tokens_out + Get(e, "eval_count", 0),
     time |-> sm.time + Get(e, "elapsed_seconds", 0)]

\* lines 250-253: one entry added to its model's summary
AddToSummary(sm, e) ==
    [count |-> sm.count + 1,
     tokens_in |-> sm.tokens_in + Get(e, "prompt_eval_count", 0),
     tokens_out |-> sm.tokens_out + Get(e, "eval_count", 0),
     time |-> sm.time + Get(e, "elapsed_seconds", 0)]

EmptyTotals ==
    [by_model |-> [m \in {} |-> NewSummary], order |-> <<>>,
     total_thinking |-> 0, total_vision |-> 0, total_tools |-> 0, total_swarm |-> 0]

\* lines 247-262: the body of the loop, for one entry
Accumulate(acc, e) ==
    LET model == Get(e, "model", <<"unknown">>)
        seen == model \in DOMAIN acc.by_model
        sm == IF seen THEN acc.by_model[model] ELSE NewSummary
    IN  [by_model |-> [m \in DOMAIN acc.by_model \cup {model} |->
                          IF m = model THEN AddToSummary(sm, e) ELSE acc.by_model[m]],
         order |-> IF seen THEN acc.order ELSE Append(acc.order, model),
         total_thinking |-> acc.total_thinking + (IF Get(e, "thinking", FALSE) THEN 1 ELSE 0),
         total_vision |-> acc.total_vision + (IF Get(e, "has_image", FALSE) THEN 1 ELSE 0),
         total_tools |-> acc.total_tools + (IF Get(e, "tool_calls", 0) > 0 THEN 1 ELSE 0),
         total_swarm |-> acc.total_swarm + (IF Get(e, "swarm", FALSE) THEN 1 ELSE 0)]

RECURSIVE Aggregate(_, _)
\* lines 240-262: the loop over the entries
Aggregate(acc, entries) ==
    IF entries = <<>> THEN acc
    ELSE Aggregate(Accumulate(acc, Head(entries)), Tail(entries))

RECURSIVE InsertByCount(_, _, _)
\* m put after every model of the sorted list whose count is not smaller
InsertByCount(sorted, m, by_model) ==
    IF sorted = <<>> THEN <<m>>
    ELSE IF by_model[Head(sorted)].count >= by_model[m].count
         THEN <<Head(sorted)>> \o InsertByCount(Tail(sorted), m, by_model)
         ELSE <<m>> \o sorted

RECURSIVE SortByCount(_, _)
\* sorted(by_model.items(), key=lambda x: -x[1]["count"]): stable, from insertion order
SortByCount(order, by_model) ==
    IF order = <<>> THEN <<>>
    ELSE InsertByCount(SortByCount(SubSeq(order, 1, Len(order) - 1), by_model),
                       order[Len(order)], by_model)

NoReport == [kind |-> "none"]

\* what show_stats computes from the file
Report(exists, file) ==
    LET entries == IF exists THEN ReadEntries(file) ELSE <<>>
        acc == Aggregate(EmptyTotals, entries)
    IN  IF ~exists \/ entries = <<>>
        THEN [kind |-> "empty"]
        ELSE [kind |-> "report",
              total |-> Len(entries),
              total_thinking |-> acc.total_thinking,
              total_swarm |-> acc.total_swarm,
              total_vision |-> acc.total_vision,
              total_tools |-> acc.total_tools,
              by_model |-> acc.by_model,
              order |-> SortByCount(acc.order, acc.by_model)]

RECURSIVE Thousands(_)
\* f"{n:,}"
Thousands(n) ==
    IF n < 1000 THEN NatToStr(n)
    ELSE Thousands(n \div 1000) \o <<",">>
         \o <<Digit((n % 1000) \div 100), Digit((n % 100) \div 10), Digit(n % 10)>>

\* lines 272-275, for one model
ModelLines(m, sm) ==
    <<Stdout("model_name", m),
      Stdout("model_count", NatToStr(sm.count)),
      Stdout("model_tokens", Thousands(sm.tokens_in) \o <<" in, ">>
                             \o Thousands(sm.tokens_out) \o <<" out">>),
      Stdout("model_time", OneDecimal((sm.time + 5) \div 10) \o <<"s total">>)>>

RECURSIVE AllModelLines(_, _)
AllModelLines(order, by_model) ==
    IF order = <<>> THEN <<>>
    ELSE ModelLines(Head(order), by_model[Head(order)]) \o AllModelLines(Tail(order), by_model)

\* what show_stats prints
ReportOutput(r) ==
    IF r.kind = "empty" THEN <<Stdout("no_delegations", <<>>)>>
    ELSE <<Stdout("total", NatToStr(r.total)),
           Stdout("with_thinking", NatToStr(r.total_thinking)),
           Stdout("with_swarm", NatToStr(r.total_swarm)),
           Stdout("with_vision", NatToStr(r.total_vision)),
           Stdout("with_tool_calls", NatToStr(r.total_tools)),
           Stdout("by_model", <<>>)>>
         \o AllModelLines(r.order, r.by_model)

(***************************************************************************)
(* list_models.                                                            *)
(***************************************************************************)
\* size_str, for a size in megabytes
SizeStr(size) ==
    LET sz == GetOr(size, 0)
    IN  IF sz # 0 /\ sz > 0 THEN OneDecimal(Round1(sz)) \o <<"GB">> ELSE <<"cloud">>

RECURSIVE ModelListLines(_)
\* lines 59-66
ModelListLines(models) ==
    IF models = <<>> THEN <<>>
    ELSE <<Stdout("model", Head(models).name \o <<" (">> \o SizeStr(Head(models).size) \o <<")">>)>>
         \o ModelListLines(Tail(models))

\* what list_models does with the answer to GET /api/tags; only ConnectionError is caught
ListModelsRun(resp) ==
    LET get == <<Event("net", "get", <<>>)>>
    IN  CASE resp.kind = "ok" ->
               [events |-> get \o <<Stdout("installed_models", <<>>)>>
                           \o ModelListLines(resp.models)
                           \o <<Stdout("default", DEFAULT_MODEL), Stdout("how_to_add", <<>>),
                                Stdout("available", <<>>)>>,
                exit |-> 0]
          [] resp.kind = "connection_error" ->
               [events |-> get \o <<Stdout("error_cannot_connect", <<>>),
                                    Stdout("start_with", <<>>)>>,
                exit |-> 1]
          [] OTHER ->
               [events |-> get \o <<Stderr("traceback", <<resp.kind>>)>>, exit |-> 1]

(***************************************************************************)
(* The inputs explored.                                                    *)
(***************************************************************************)
Models == {<<"m1">>, DEFAULT_MODEL}

NoResponse ==
    [kind |-> "none", content |-> None, thinking |-> None, tool_calls |-> None,
     prompt_eval_count |-> NoneInt, eval_count |-> NoneInt]

\* requests.post / raise_for_status / resp.json() / reading the body fails
Failure(kind) == [NoResponse EXCEPT !.kind = kind]

FailureKinds == {"connection_error", "timeout", "http_error", "bad_json", "bad_shape"}

\* answers of POST /api/chat with the time they took, in milliseconds
Exchanges ==
    {[resp |-> Failure(k), elapsedMs |-> 0] : k \in FailureKinds}
    \cup
    {[resp |-> [kind |-> "ok", content |-> Some(<<"r", "r">>), thinking |-> None,
                tool_calls |-> None, prompt_eval_count |-> Some(3), eval_count |-> Some(5)],
      elapsedMs |-> 1234],
     [resp |-> [kind |-> "ok", content |-> None, thinking |-> Some(<<"h">>),
                tool_calls |-> Some(<<"call">>), prompt_eval_count |-> NoneInt,
                eval_count |-> Some(1)],
      elapsedMs |-> 56]}

\* the files a delegate invocation with arguments a can find
Files(a) ==
    {[imageExists |-> ie, imageBytes |-> IF ie THEN <<"b">> ELSE <<>>,
      tools |-> [state |-> ts, value |-> IF ts \in {"missing", "not_json"} THEN "" ELSE ts]] :
        ie \in IF TruthyStr(a.image) THEN BOOLEAN ELSE {FALSE},
        ts \in IF TruthyStr(a.tools_file)
               THEN {"missing", "not_json", "json_no_schema", "json_schema"}
               ELSE {"missing"}}

NoEnv ==
    [imageExists |-> FALSE, imageBytes |-> <<>>, tools |-> [state |-> "missing", value |-> ""],
     resp |-> NoResponse, elapsedMs |-> 0, now |-> <<>>, logWritable |-> FALSE]

\* the log directory can be written or not; this matters once the call has succeeded
Writable(x) == IF x.resp.kind = "ok" THEN BOOLEAN ELSE {TRUE}

\* the surroundings of a delegate invocation: files, server, clock, log directory
Envs(a) ==
    {[imageExists |-> f.imageExists, imageBytes |-> f.imageBytes, tools |-> f.tools,
      resp |-> y[1].resp, elapsedMs |-> y[1].elapsedMs, now |-> <<"2026-01-01T00:00:00">>,
      logWritable |-> y[2]] :
        f \in Files(a), y \in {z \in Exchanges \X BOOLEAN : z[2] \in Writable(z[1])}}

OptStr(strs) == {None} \cup {Some(t) : t \in strs}

AgentCounts == {NoneInt} \cup {Some(n) : n \in (0 - MaxAgents)..MaxAgents}

NoArgs ==
    [model |-> <<>>, task |-> <<>>, input_text |-> None, system |-> None, think |-> FALSE,
     swarm |-> FALSE, image |-> None, tools_file |-> None, json_output |-> FALSE,
     agents |-> NoneInt]

\* command lines of delegate explored over a sequence of invocations
DelegateArgs ==
    {[NoArgs EXCEPT !.model = m, !.task = <<"t">>, !.image = im] :
        m \in Models, im \in OptStr({<<>>, <<"p">>})}
    \cup
    {[NoArgs EXCEPT !.model = DEFAULT_MODEL, !.task = <<"t">>, !.input_text = Some(<<"i">>),
                    !.swarm = TRUE, !.tools_file = Some(<<"f">>)]}

\* command lines of delegate explored for one invocation
AllDelegateArgs ==
    [model : {DEFAULT_MODEL}, task : {<<>>, <<"t">>},
     input_text : OptStr({<<>>, <<"i">>}), system : OptStr({<<>>, <<"s">>}),
     think : BOOLEAN, swarm : BOOLEAN,
     image : OptStr({<<>>, <<"p">>}), tools_file : OptStr({<<"f">>}),
     json_output : BOOLEAN, agents : AgentCounts]

\* answers of GET /api/tags; a size is in megabytes
TagsResponses ==
    {[kind |-> "ok", models |-> <<>>],
     [kind |-> "ok", models |-> <<[name |-> <<"m1">>, size |-> Some(4660)],
                                  [name |-> DEFAULT_MODEL, size |-> NoneInt],
                                  [name |-> <<"m0">>, size |-> Some(0)]>>],
     [kind |-> "connection_error", models |-> <<>>],
     [kind |-> "http_error", models |-> <<>>]}

(***************************************************************************)
(* The program: one action per command.                                    *)
(***************************************************************************)
Init ==
    /\ log = <<>>
    /\ logExists \in BOOLEAN
    /\ cmd = "none"
    /\ args = NoArgs
    /\ env = NoEnv
    /\ request = NoRequest
    /\ events = <<>>
    /\ status = "none"
    /\ report = NoReport
    /\ delegations = <<>>

ExitStatus(code) == IF code = 0 THEN "exit0" ELSE "exit1"

\* worker.py models
ListModels ==
    \E resp \in TagsResponses :
        \E run \in {ListModelsRun(resp)} :
            /\ cmd' = "models"
            /\ events' = run.events
            /\ status' = ExitStatus(run.exit)
            /\ args' = NoArgs /\ env' = NoEnv /\ request' = NoRequest /\ report' = NoReport
            /\ UNCHANGED <<log, logExists, delegations>>

\* history entry of a delegate invocation that ran to its end
Completed(a, run) ==
    [model |-> a.model,
     image_supplied |-> TruthyStr(a.image),
     image_sent |-> run.request.payload.messages[Len(run.request.payload.messages)].images.set]

\* worker.py delegate, with command line a in surroundings e
DelegateWith(a, e) ==
    \E run \in {Run(a, e)} :
        /\ cmd' = "delegate"
        /\ args' = a
        /\ env' = e
        /\ request' = run.request
        /\ events' = run.events
        /\ status' = ExitStatus(run.exit)
        /\ log' = IF run.appended = <<>> THEN log ELSE AppendLog(log, run.appended[1])
        /\ logExists' = (logExists \/ run.appended # <<>>)
        /\ delegations' = IF run.exit = 0 THEN Append(delegations, Completed(a, run))
                          ELSE delegations
        /\ report' = NoReport

\* worker.py delegate ...
Delegate ==
    /\ Len(log) < MaxLog
    /\ \E a \in DelegateArgs : \E e \in Envs(a) : DelegateWith(a, e)

\* worker.py stats
ShowStats ==
    \E r \in {Report(logExists, log)} :
        /\ cmd' = "stats"
        /\ report' = r
        /\ events' = ReportOutput(r)
        /\ status' = "exit0"
        /\ args' = NoArgs /\ env' = NoEnv /\ request' = NoRequest
        /\ UNCHANGED <<log, logExists, delegations>>

Next == ListModels \/ Delegate \/ ShowStats

Spec == Init /\ [][Next]_vars

(***************************************************************************)
(* One delegate invocation: the command line and the surroundings are      *)
(* drawn at the start, the one step runs delegate() on them.               *)
(***************************************************************************)
InitDelegate ==
    /\ log = <<>>
    /\ logExists \in BOOLEAN
    /\ cmd = "none"
    /\ args \in AllDelegateArgs
    /\ env \in Envs(args)
    /\ request = NoRequest
    /\ events = <<>>
    /\ status = "none"
    /\ report = NoReport
    /\ delegations = <<>>

DelegateOnce == cmd = "none" /\ DelegateWith(args, env)

NextDelegate == DelegateOnce

SpecDelegate == InitDelegate /\ [][NextDelegate]_vars

(***************************************************************************)
(* Properties.                                                             *)
(***************************************************************************)
\* the value a log line holds for a key
Field(line, key) == line[CHOOSE i \in DOMAIN line : line[i][1] = key][2]

IsOutput(ev) == ev.ch \in {"stdout", "stderr"}
ErrorItems == {"error_cannot_connect", "error_timed_out", "error_other", "traceback"}
Indexes(item) == {i \in DOMAIN events : events[i].item = item}
LogAppends == {i \in DOMAIN events : events[i].ch = "log"}
Posts == {i \in DOMAIN events : events[i].ch = "net" /\ events[i].item = "post"}
Emitted(item) == Indexes(item) # {}
UserTurn == request.payload.messages[Len(request.payload.messages)]
ImagePathSupplied == args.image.set /\ args.image.val # <<>>

\* C1: the log holds one record per delegate invocation that succeeded: an invocation
\* whose remote call completed (and whose log could be written) appends exactly one
\* record and exits 0, an invocation whose remote call failed (connection refused,
\* timeout, non-success status, undecodable or misshapen body) appends none and exits
\* non-zero.
C1_LogCountsSuccesses ==
    /\ Len(log) = Len(delegations)
    /\ cmd = "delegate" =>
         /\ Cardinality(LogAppends) = (IF status = "exit0" THEN 1 ELSE 0)
         /\ env.resp.kind \in FailureKinds => status = "exit1" /\ LogAppends = {}
         /\ (request.posted /\ env.resp.kind = "ok" /\ env.logWritable) => status = "exit0"
         /\ status = "exit0" => env.resp.kind = "ok"

C1_Witness ==
    /\ cmd = "delegate" /\ status = "exit1" /\ env.resp.kind = "connection_error"
    /\ Len(log) = 1 /\ Len(delegations) = 1

\* C2: the log is append-only: every step leaves the old content as a prefix of the
\* new one and never removes the file; models and stats leave the log exactly as
\* it was (stats on an absent log does not create it).
C2_LogAppendOnly ==
    [][/\ IsPrefix(log, log')
       /\ logExists => logExists'
       /\ cmd' \in {"models", "stats"} => log' = log /\ logExists' = logExists]_vars

C2_Witness == cmd = "stats" /\ Len(log) >= 2 /\ report.kind = "report"

\* C3 as stated: a delegate invocation either emitted the result and appended the
\* record, or failed with no record and with nothing written to any output channel
\* before the failure.
C3_NoOutputBeforeFailure ==
    cmd = "delegate" =>
        \/ /\ status = "exit0" /\ Emitted("response") /\ LogAppends # {} /\ Len(log) = 1
        \/ /\ status = "exit1" /\ LogAppends = {} /\ log = <<>>
           /\ \A i \in DOMAIN events : IsOutput(events[i]) => events[i].item \in ErrorItems

\* C3, amended: a delegate invocation either emitted the result and appended the
\* record, or failed with no record, nothing on the main output channel, and nothing
\* on the diagnostics channel before the failure other than the image-not-found warning.
C3_TwoOutcomes ==
    cmd = "delegate" =>
        \/ /\ status = "exit0" /\ Emitted("response") /\ LogAppends # {} /\ Len(log) = 1
        \/ /\ status = "exit1" /\ LogAppends = {} /\ log = <<>>
           /\ \A i \in DOMAIN events :
                IsOutput(events[i]) =>
                    /\ events[i].ch = "stderr"
                    /\ events[i].item \in ErrorItems \cup {"warning_image_not_found"}
                    /\ events[i].item \in ErrorItems => i = Len(events)

C3_Witness ==
    /\ cmd = "delegate" /\ status = "exit1" /\ request.posted
    /\ Emitted("warning_image_not_found") /\ Emitted("error_cannot_connect")

\* C4 as stated: in a successful delegation the log append comes before every output
\* of the invocation, on either channel.
C4_AppendBeforeAnyOutput ==
    (cmd = "delegate" /\ status = "exit0") =>
        \A k \in LogAppends : \A j \in DOMAIN events : IsOutput(events[j]) => k < j

\* C4, amended: in a successful delegation the log append comes before every output
\* written after the remote call (thinking, tool calls, result, stats footer); the one
\* output that precedes it is the image-not-found warning of request building.
C4_AppendBeforeResultOutput ==
    (cmd = "delegate" /\ status = "exit0") =>
        /\ Cardinality(LogAppends) = 1
        /\ \A k \in LogAppends : \A j \in DOMAIN events :
              IsOutput(events[j]) =>
                  IF events[j].item = "warning_image_not_found"
                  THEN j < k /\ events[j].ch = "stderr" /\ \A q \in Posts : j < q
                  ELSE k < j

C4_Witness ==
    /\ cmd = "delegate" /\ status = "exit0"
    /\ Emitted("warning_image_not_found") /\ Emitted("thinking_text") /\ Emitted("response")

SystemTurns == {i \in DOMAIN request.payload.messages : request.payload.messages[i].role = "system"}
SystemContent == request.payload.messages[1].content
SwarmRequestBuilt == cmd = "delegate" /\ request.posted /\ args.swarm

\* C5: with swarm set, whatever the system prompt (absent, empty or not), the request
\* has exactly one system turn, in first position, whose content begins with the
\* orchestration directive; the caller's system prompt appears only as the appended
\* "additional context" suffix and never stands in for the directive.
C5_SwarmDirectiveFirst ==
    SwarmRequestBuilt =>
        /\ SystemTurns = {1}
        /\ Len(request.payload.messages) = 2
        /\ IsPrefix(SWARM_SYSTEM_PROMPT, SystemContent)
        /\ SystemContent # args.system.val
        /\ IF args.system.set /\ args.system.val # <<>>
           THEN /\ IsSuffix(<<AdditionalContext>> \o args.system.val, SystemContent)
                /\ Cardinality({i \in DOMAIN SystemContent :
                                    SystemContent[i] = AdditionalContext}) = 1
           ELSE \A i \in DOMAIN SystemContent : SystemContent[i] # AdditionalContext

C5_Witness ==
    /\ SwarmRequestBuilt /\ args.system.set /\ args.system.val # <<>> /\ args.agents.set
    /\ Len(SystemContent) > Len(SWARM_SYSTEM_PROMPT) + Len(args.system.val)

\* the number a decimal text denotes
DigitValue(c) == CHOOSE d \in 0..9 : Digit(d) = c
IsDigits(t) == t # <<>> /\ \A i \in DOMAIN t : \E d \in 0..9 : Digit(d) = t[i]

RECURSIVE ParseNat(_)
ParseNat(t) == IF t = <<>> THEN 0 ELSE 10 * ParseNat(SubSeq(t, 1, Len(t) - 1)) + DigitValue(t[Len(t)])

IsInt(t) == IF t # <<>> /\ Head(t) = "-" THEN IsDigits(Tail(t)) ELSE IsDigits(t)
ParseInt(t) == IF Head(t) = "-" THEN 0 - ParseNat(Tail(t)) ELSE ParseNat(t)

\* the content holds the sentence "Spawn exactly <n> specialized agents for this task."
NamesAgentCount(content, n) ==
    \E i \in DOMAIN content : \E j \in DOMAIN content :
        /\ i < j
        /\ content[i] = SpawnOpen
        /\ content[j] = SpawnClose
        /\ IsInt(SubSeq(content, i + 1, j - 1))
        /\ ParseInt(SubSeq(content, i + 1, j - 1)) = n

\* C6 as stated: with swarm set and an agent count N given (0 and negative values
\* included), the system turn holds a sentence naming exactly N.
C6_AnyCountNamed ==
    (SwarmRequestBuilt /\ args.agents.set) => NamesAgentCount(SystemContent, args.agents.val)

\* C6, amended: with swarm set and a non-zero agent count N given (negative values
\* included), the system turn holds a sentence naming exactly N, and no other count;
\* for N = 0, as for no count, there is no such sentence.
C6_NonZeroCountNamed ==
    SwarmRequestBuilt =>
        IF args.agents.set /\ args.agents.val # 0
        THEN /\ NamesAgentCount(SystemContent, args.agents.val)
             /\ \A n \in (0 - MaxAgents - 1)..(MaxAgents + 1) :
                    NamesAgentCount(SystemContent, n) => n = args.agents.val
        ELSE \A i \in DOMAIN SystemContent : SystemContent[i] # SpawnOpen

C6_Witness ==
    /\ SwarmRequestBuilt /\ args.agents.set /\ args.agents.val < 0
    /\ NamesAgentCount(SystemContent, args.agents.val)

\* C7 as stated: the user turn, last in the request, is the task when no input text is
\* given and task + separator + input text whenever one is given, the empty one included.
C7_InputPresentSeparated ==
    (cmd = "delegate" /\ request.posted) =>
        /\ UserTurn.role = "user"
        /\ UserTurn.content = IF args.input_text.set
                              THEN args.task \o <<Separator>> \o args.input_text.val
                              ELSE args.task

\* C7, amended: the user turn, last in the request, is the task when the input text is
\* absent or empty, and task + separator + input text when it is given and not empty.
C7_InputNonEmptySeparated ==
    (cmd = "delegate" /\ request.posted) =>
        /\ UserTurn.role = "user"
        /\ \A i \in DOMAIN request.payload.messages :
              request.payload.messages[i].role = "user" => i = Len(request.payload.messages)
        /\ UserTurn.content = IF args.input_text.set /\ args.input_text.val # <<>>
                              THEN args.task \o <<Separator>> \o args.input_text.val
                              ELSE args.task

C7_Witness ==
    /\ cmd = "delegate" /\ request.posted /\ args.input_text.set /\ args.input_text.val # <<>>
    /\ Len(UserTurn.content) = Len(args.task) + 1 + Len(args.input_text.val)

RECURSIVE SumField(_, _)
\* the sum of a numeric field over the log lines of the given indexes
SumField(idx, key) ==
    IF idx = {} THEN 0
    ELSE LET i == CHOOSE x \in idx : TRUE
         IN  Field(log[i], key) + SumField(idx \ {i}, key)

LinesOf(m) == {i \in DOMAIN log : Field(log[i], "model") = m}

RECURSIVE SumCounts(_, _)
SumCounts(ms, by_model) ==
    IF ms = {} THEN 0
    ELSE LET m == CHOOSE x \in ms : TRUE
         IN  by_model[m].count + SumCounts(ms \ {m}, by_model)

\* C8: stats over a log built by successful delegations: for every model the summary
\* counts the records of that model, its token and time totals are the sums of
\* those records' values, and the counts add up to the reported total.
C8_AggregationRoundTrip ==
    cmd = "stats" =>
        /\ report.kind = "report" <=> log # <<>>
        /\ report.kind = "report" =>
             /\ DOMAIN report.by_model = {m \in Models : LinesOf(m) # {}}
             /\ \A m \in DOMAIN report.by_model :
                   /\ report.by_model[m].count = Cardinality(LinesOf(m))
                   /\ report.by_model[m].tokens_in = SumField(LinesOf(m), "prompt_eval_count")
                   /\ report.by_model[m].tokens_out = SumField(LinesOf(m), "eval_count")
                   /\ report.by_model[m].time = SumField(LinesOf(m), "elapsed_seconds")
             /\ SumCounts(DOMAIN report.by_model, report.by_model) = report.total
             /\ report.total = Len(delegations)
             /\ \A i \in DOMAIN log : Field(log[i], "model") = delegations[i].model

C8_Witness ==
    /\ cmd = "stats" /\ report.kind = "report"
    /\ \E m \in DOMAIN report.by_model :
          /\ report.by_model[m].count = 2
          /\ report.by_model[m].tokens_in = 3
          /\ report.by_model[m].tokens_out = 6
          /\ report.by_model[m].time = 129

ToolsState == env.tools.state
ToolsSupplied == cmd = "delegate" /\ args.tools_file.set /\ args.tools_file.val # <<>>
NoErrorBeforePost ==
    \A q \in Posts : \A i \in DOMAIN events : i < q => events[i].item \notin ErrorItems

\* C9 as stated: a tools file that resolves but is malformed does not make request
\* building fail: the request is sent with it, nothing is reported before the remote
\* call; a tools path that does not resolve is left out without an error.
C9_MalformedToolsStillSent ==
    ToolsSupplied =>
        /\ ToolsState \in {"not_json", "json_no_schema"} =>
              /\ request.posted /\ Posts # {} /\ request.payload.tools.set
              /\ NoErrorBeforePost
        /\ ToolsState = "missing" =>
              /\ request.posted /\ Posts # {} /\ ~request.payload.tools.set
              /\ NoErrorBeforePost

\* C9, amended: a tools file that holds JSON, of whatever shape, is attached as it is and
\* the request is sent, nothing being reported before the remote call; a tools file that
\* is not JSON makes request building fail before anything is sent; a tools path that
\* does not resolve is left out without an error.
C9_OnlyJsonToolsSent ==
    ToolsSupplied =>
        /\ ToolsState \in {"json_no_schema", "json_schema"} =>
              /\ request.posted /\ Posts # {}
              /\ request.payload.tools = Some(<<env.tools.value>>)
              /\ NoErrorBeforePost
        /\ ToolsState = "not_json" =>
              /\ ~request.posted /\ Posts = {} /\ status = "exit1" /\ log = <<>>
              /\ Emitted("traceback")
        /\ ToolsState = "missing" =>
              /\ request.posted /\ Posts # {} /\ ~request.payload.tools.set
              /\ NoErrorBeforePost
              /\ \A i \in DOMAIN events :
                    (\A q \in Posts : i < q) => events[i].item = "warning_image_not_found"

C9_Witness ==
    /\ ToolsSupplied /\ ToolsState = "not_json" /\ status = "exit1" /\ Emitted("traceback")

Supplied == {i \in DOMAIN delegations : delegations[i].image_supplied}
Sent == {i \in DOMAIN delegations : delegations[i].image_sent}

\* C10: the has_image field of a record is true exactly when a non-empty image path was
\* given, whether or not the path resolved (the request carries an image only when it
\* did), and the vision count of stats is the number of delegations given an image
\* path, not the number of requests that carried an image.
C10_HasImageFollowsPath ==
    /\ (cmd = "delegate" /\ status = "exit0") =>
          /\ Field(log[Len(log)], "has_image") = ImagePathSupplied
          /\ UserTurn.images.set = (ImagePathSupplied /\ env.imageExists)
    /\ \A i \in DOMAIN log : Field(log[i], "has_image") = delegations[i].image_supplied
    /\ Sent \subseteq Supplied
    /\ (cmd = "stats" /\ report.kind = "report") =>
          report.total_vision = Cardinality(Supplied)

C10_Witness ==
    /\ cmd = "stats" /\ report.kind = "report"
    /\ report.total_vision = 2 /\ Cardinality(Sent) = 1

====
